---- MODULE Spec2Model ----
(***************************************************************************)
(* A model of feature/feature.py: Group, Array, Slot and the Feature       *)
(* classes Numerical, Categorical and Hashed.                              *)
(*                                                                         *)
(* Python values are tagged records [t, v].  A str is modelled by the      *)
(* sequence of its underscore-free parts, each part one character:         *)
(* "a_b" is PyStr(<<"a", "b">>).  name.split("_") is then the sequence of  *)
(* the parts and "{}_{}".format(p, n) the concatenation of the parts.      *)
(* A float is modelled by the integer it equals (all values used are       *)
(* integral).  A call returns a record with the field err: "" when it      *)
(* returned, else the name of the exception it raised.                     *)
(***************************************************************************)
EXTENDS Integers, Sequences, FiniteSets, TLC

VARIABLES cfg,    \* which Group tree was constructed
          slots,  \* Group._slots of every Group of the tree
          rows,   \* Group._rows of every Group of the tree
          last,   \* the last call made and its outcome
          want,   \* per row, the values the caller set, by column name
          arr     \* a standalone Array (receiver of concatenate)

vars == <<cfg, slots, rows, last, want, arr>>

(***************************** Python values *******************************)

NoneVal == [t |-> "None", v |-> 0]
PyInt(n) == [t |-> "int", v |-> n]
PyFloat(n) == [t |-> "float", v |-> n]
PyStr(parts) == [t |-> "str", v |-> parts]
PyList(items) == [t |-> "list", v |-> items]

\* Python's == on the modelled values.
PyEq(a, b) == a.t = b.t /\ a.v = b.v

\* x in seq
PyIn(x, seq) == \E i \in 1..Len(seq) : PyEq(seq[i], x)

\* seq.index(x); the caller checks PyIn first
PyIndex(x, seq) == CHOOSE i \in 1..Len(seq) : PyEq(seq[i], x) /\ \A j \in 1..(i-1) : ~PyEq(seq[j], x)

DigitStr == <<"0", "1", "2", "3", "4", "5", "6", "7", "8", "9">>

\* str.isdigit() of a str given by its parts
IsDigit(parts) == Len(parts) = 1 /\ \E i \in 1..10 : DigitStr[i] = parts[1]

\* int(s) of a digit str
IntOf(parts) == (CHOOSE i \in 1..10 : DigitStr[i] = parts[1]) - 1

\* str(x), "{}".format(x): the parts of the text of a value
StrOf(x) == IF x.t = "str" THEN x.v ELSE <<DigitStr[x.v + 1]>>

\* format that leaves the prefix out
FormatWithoutPrefix(prefix, name) == StrOf(name)

\* "{}_{}".format(prefix, name)
Format(prefix, name) == prefix \o StrOf(name)

\* float(x): [err, v]
Float(x) ==
  CASE x.t \in {"int", "float"} -> [err |-> "", v |-> x.v]
    [] x.t = "str" -> IF IsDigit(x.v) THEN [err |-> "", v |-> IntOf(x.v)]
                      ELSE [err |-> "ValueError", v |-> 0]
    [] OTHER -> [err |-> "TypeError", v |-> 0]

Letters == <<"a", "b", "c", "d", "e", "f", "g", "h", "i", "j", "k", "l", "m",
             "n", "o", "p", "q", "r", "s", "t", "u", "v", "w", "x", "y", "z">>

\* ord(c) of "_", the lowercase letters and the digits
Ord(c) ==
  IF c = "_" THEN 95
  ELSE IF \E i \in 1..26 : Letters[i] = c THEN 96 + (CHOOSE i \in 1..26 : Letters[i] = c)
  ELSE 47 + (CHOOSE i \in 1..10 : DigitStr[i] = c)

\* the character codes of a str: its parts joined by "_"
RECURSIVE Chars(_)
Chars(parts) ==
  IF Len(parts) = 0 THEN <<>>
  ELSE IF Len(parts) = 1 THEN <<Ord(parts[1])>>
  ELSE <<Ord(parts[1]), Ord("_")>> \o Chars(Tail(parts))

\* lexicographic order on sequences of integers
RECURSIVE SeqLess(_, _)
SeqLess(s, u) ==
  IF Len(u) = 0 THEN FALSE
  ELSE IF Len(s) = 0 THEN TRUE
  ELSE IF s[1] # u[1] THEN s[1] < u[1]
  ELSE SeqLess(Tail(s), Tail(u))

\* Python's < on two values of the same type (int or str)
PyLess(a, b) == IF a.t = "str" THEN SeqLess(Chars(a.v), Chars(b.v)) ELSE a.v < b.v

\* sorted(set(seq)): the distinct values of seq in ascending order
RECURSIVE SortedSet(_)
SortedSet(seq) ==
  IF Len(seq) = 0 THEN <<>>
  ELSE LET m == CHOOSE i \in 1..Len(seq) : \A j \in 1..Len(seq) : ~PyLess(seq[j], seq[i])
           rest == SelectSeq(seq, LAMBDA y : ~PyEq(y, seq[m]))
       IN <<seq[m]>> \o SortedSet(rest)

\* list(range(n)) as Python ints
Range(n) == [i \in 1..n |-> PyInt(i - 1)]

(******************************** fnv32a ***********************************)

\* A 32-bit value is kept as two 16-bit halves [hi, lo].
Half == 65536
FnvOffsetHi == 33052
FnvOffsetLo == 40389
FnvPrimeHi == 256
FnvPrimeLo == 403

\* a ^ b for 0 <= a, b < 2^n
RECURSIVE Xor(_, _, _)
Xor(a, b, n) ==
  IF n = 0 THEN 0
  ELSE (((a % 2) + (b % 2)) % 2) + 2 * Xor(a \div 2, b \div 2, n - 1)

\* ((h ^ c) * 0x01000193) & 0xffffffff
FnvStep(h, c) ==
  LET lo == Xor(h.lo, c, 16)
      p == lo * FnvPrimeLo
  IN [hi |-> ((p \div Half) + (h.hi * FnvPrimeLo) + (lo * FnvPrimeHi)) % Half,
      lo |-> p % Half]

RECURSIVE FnvFold(_, _)
FnvFold(h, chars) ==
  IF Len(chars) = 0 THEN h ELSE FnvFold(FnvStep(h, chars[1]), Tail(chars))

fnv32a(text) == FnvFold([hi |-> FnvOffsetHi, lo |-> FnvOffsetLo], Chars(text.v))

\* the mock hash of the tests: ord(c) - ord('a')
mock(text) == [hi |-> 0, lo |-> Ord(text.v[1]) - Ord("a")]

HashOf(h, text) == IF h = "mock" THEN mock(text) ELSE fnv32a(text)

\* the hash raises TypeError: fnv32a iterates over its argument and calls
\* ord on each item, mock calls ord on its argument
HashRaises(h, text) ==
  text.t # "str" \/ (h = "mock" /\ Len(Chars(text.v)) # 1)

\* key & 0x80000000 != 0
TopBit(key) == key.hi >= Half \div 2

\* key % n
HashMod(key, n) == (((key.hi % n) * (Half % n)) + (key.lo % n)) % n

(********************************* Slot ************************************)

\* a dict is a function on its keys (no operation of the code observes the
\* insertion order: every iteration is sorted or writes distinct cells)
EmptyDict == <<>>
DictHas(d, key) == key \in DOMAIN d
DictGet(d, key) == d[key]
DictPut(d, key, val) == (key :> val) @@ d

\* truth value of a fields attribute (None or a list)
Truthy(fields) == fields.t = "list" /\ Len(fields.v) > 0

Slot(fields) ==
  [fields |-> fields,
   indexes |-> Truthy(fields) /\ \A i \in 1..Len(fields.v) : fields.v[i].t = "int",
   data |-> <<>>]

\* Slot.__setitem__: [err, slot]
SlotSetItem(slot, key, value) ==
  LET k == IF slot.indexes /\ key.t = "str" /\ IsDigit(key.v) THEN PyInt(IntOf(key.v)) ELSE key
      f == Float(value)
  IN IF Truthy(slot.fields) /\ ~PyIn(k, slot.fields.v) THEN [err |-> "KeyError", slot |-> slot]
     ELSE IF f.err # "" THEN [err |-> f.err, slot |-> slot]
     ELSE [err |-> "", slot |-> [slot EXCEPT !.data = DictPut(slot.data, k, f.v)]]


(******************************* Features **********************************)

\* Feature.__init__: the fields attribute, None or a list
FeatureInit(fields) ==
  LET l == IF fields.t = "int" THEN PyList(Range(fields.v)) ELSE fields
  IN IF Truthy(l) THEN l ELSE NoneVal

Numerical(fields) ==
  [kind |-> "Numerical", fields |-> FeatureInit(fields), values |-> <<>>,
   hash |-> "", replace |-> NoneVal, func |-> NoneVal, random_sign |-> FALSE]

Categorical(values) ==
  [kind |-> "Categorical", fields |-> FeatureInit(PyInt(Len(SortedSet(values)))),
   values |-> SortedSet(values),
   hash |-> "", replace |-> NoneVal, func |-> NoneVal, random_sign |-> FALSE]

\* Hashed.__init__: the policy goes to self.func; self.replace is set to None
Hashed(hash, size, replace, random_sign) ==
  [kind |-> "Hashed", fields |-> FeatureInit(PyInt(size)), values |-> <<>>,
   hash |-> hash, replace |-> NoneVal,
   func |-> IF PyEq(replace, PyStr(<<"add">>)) \/ PyEq(replace, PyStr(<<"max">>))
               \/ replace.t = "callable"
            THEN replace ELSE NoneVal,
   random_sign |-> random_sign]

\* calling a replacement strategy: 'add', 'max', or the callable
\* lambda new, old: old
CallPolicy(f, new, old) ==
  CASE f.v = <<"add">> -> new + old
    [] f.v = <<"max">> -> IF new >= old THEN new ELSE old
    [] OTHER -> old

\* Numerical.set(*args): [err, slot]
NumericalSet(f, slot, args) ==
  IF Len(args) = 1 THEN SlotSetItem(slot, PyInt(0), args[1])
  ELSE IF Len(args) = 2 THEN SlotSetItem(slot, args[1], args[2])
  ELSE [err |-> "ValueError", slot |-> slot]

\* Categorical.set(token, weight=1.0): [err, slot]
CategoricalSet(f, slot, args) ==
  IF Len(args) \notin {1, 2} THEN [err |-> "TypeError", slot |-> slot]
  ELSE LET token == args[1]
           weight == IF Len(args) = 2 THEN args[2] ELSE PyFloat(1)
       IN IF ~PyIn(token, f.values) THEN [err |-> "ValueError", slot |-> slot]
          ELSE SlotSetItem(slot, PyInt(PyIndex(token, f.values) - 1), weight)

\* Hashed.set(token, weight=1.0): [err, slot]
HashedSet(f, slot, args) ==
  IF Len(args) \notin {1, 2} \/ HashRaises(f.hash, args[1])
  THEN [err |-> "TypeError", slot |-> slot]
  ELSE IF Len(args) = 2 /\ args[2].t \notin {"int", "float"} /\ f.random_sign
          /\ TopBit(HashOf(f.hash, args[1]))
  THEN [err |-> "TypeError", slot |-> slot]
  ELSE LET token == args[1]
           w0 == IF Len(args) = 2 THEN args[2] ELSE PyFloat(1)
           key == HashOf(f.hash, token)
           w1 == IF f.random_sign /\ TopBit(key) THEN [w0 EXCEPT !.v = 0 - w0.v] ELSE w0
           index == PyInt(HashMod(key, Len(f.fields.v)))
           w2 == IF f.replace.t # "None" /\ DictHas(slot.data, index)
                 THEN PyFloat(CallPolicy(f.replace, w1.v, DictGet(slot.data, index)))
                 ELSE w1
       IN SlotSetItem(slot, index, w2)

FeatureSet(f, slot, args) ==
  CASE f.kind = "Numerical" -> NumericalSet(f, slot, args)
    [] f.kind = "Categorical" -> CategoricalSet(f, slot, args)
    [] OTHER -> HashedSet(f, slot, args)

(********************************* Array ***********************************)

LengthError == "ValueError: array length does not match"
ColumnError == "ValueError: a column named already exists"

\* numbered_columns(array)
numbered_columns(data) ==
  IF Len(data) = 0 THEN <<>>
  ELSE [i \in 1..Len(data[1]) |-> PyStr(<<DigitStr[i]>>)]

\* Array(length, columns): columns is the attribute _columns; named is
\* whether the object has a columns attribute (a plain list of rows has none)
Array(length, columns) ==
  [named |-> TRUE, columns |-> columns, data |-> [i \in 1..length |-> <<>>]]

\* the columns property: the names, and the object after the lazy assignment
Columns(a) ==
  IF Len(a.columns) = 0
  THEN [cols |-> numbered_columns(a.data), obj |-> [a EXCEPT !.columns = numbered_columns(a.data)]]
  ELSE [cols |-> a.columns, obj |-> a]

\* Array.concatenate(other, prefix): [err, self]
ConcatenatePartial(self, other, prefix) ==
  IF Len(self.data) # Len(other.data) THEN [err |-> LengthError, self |-> self]
  ELSE LET old == Columns(self)
           new0 == IF other.named THEN Columns(other).cols ELSE numbered_columns(other.data)
           new == IF Len(prefix) > 0 THEN [i \in 1..Len(new0) |-> PyStr(Format(prefix, new0[i]))]
                  ELSE new0
           merged == [named |-> TRUE, columns |-> old.cols \o new,
                      data |-> [i \in 1..Len(self.data) |-> self.data[i] \o other.data[i]]]
       IN IF \E i \in 1..Len(new) : PyIn(new[i], old.cols)
          THEN [err |-> ColumnError, self |-> merged]
          ELSE [err |-> "", self |-> merged]

concatenate(self, other, prefix) ==
  IF Len(self.data) # Len(other.data) THEN [err |-> LengthError, self |-> self]
  ELSE LET old == Columns(self)
           new0 == IF other.named THEN Columns(other).cols ELSE numbered_columns(other.data)
           new == IF Len(prefix) > 0 THEN [i \in 1..Len(new0) |-> PyStr(Format(prefix, new0[i]))]
                  ELSE new0
       IN IF \E i \in 1..Len(new) : PyIn(new[i], old.cols)
          THEN [err |-> ColumnError, self |-> old.obj]
          ELSE [err |-> "",
                self |-> [named |-> TRUE, columns |-> old.cols \o new,
                          data |-> [i \in 1..Len(self.data) |-> self.data[i] \o other.data[i]]]]

\* Array.shape: (rows, columns); IndexError without rows
shape(a) ==
  IF Len(a.data) = 0 THEN [err |-> "IndexError", v |-> <<0, 0>>]
  ELSE [err |-> "", v |-> <<Len(a.data), Len(a.data[1])>>]

(********************************* Group ***********************************)

\* A tree of Groups is a function from Group identities to
\* [features, transform]; features maps each child's name (the parts of the
\* str) to a Feature record or to [kind |-> "Group", gid |-> identity].
\* The state st of a tree is [slots, rows]: _slots and _rows of each Group.

IsGroup(child) == child.kind = "Group"

\* the Groups of the tree nested directly in Group g
ChildGroups(T, g) ==
  {T[g].features[n].gid : n \in {m \in DOMAIN T[g].features : IsGroup(T[g].features[m])}}

\* Group.__init__ of every Group of the tree
GroupInit(T) ==
  [slots |-> [g \in DOMAIN T |-> EmptyDict], rows |-> [g \in DOMAIN T |-> <<>>]]

\* Group.set(*args): [err, st]
RECURSIVE set(_, _, _, _)

\* set that looks the name up with features.get(name) and returns when
\* there is no such child
SetIgnoringUnknown(T, st, g, args) ==
  LET features == T[g].features
      single == Cardinality(DOMAIN features) = 1
      only == CHOOSE n \in DOMAIN features : TRUE
  IN IF Len(args) = 0 THEN [err |-> "IndexError", st |-> st]
     ELSE LET name == IF single THEN PyStr(only) ELSE args[1]
              rest == IF single /\ ~PyEq(name, args[1]) THEN args ELSE Tail(args)
          IN IF ~(name.t = "str" /\ name.v \in DOMAIN features)
             THEN [err |-> "", st |-> st]
             ELSE LET feature == features[name.v]
                  IN IF IsGroup(feature) THEN set(T, st, feature.gid, rest)
                     ELSE LET st1 == IF DictHas(st.slots[g], name.v) THEN st
                                     ELSE [st EXCEPT !.slots[g] =
                                             DictPut(@, name.v, Slot(feature.fields))]
                              r == FeatureSet(feature, st1.slots[g][name.v], rest)
                          IN [err |-> r.err,
                              st |-> [st1 EXCEPT !.slots[g][name.v] = r.slot]]

\* set that takes the first argument for the name whenever it is a str
SetStrippingStr(T, st, g, args) ==
  LET features == T[g].features
      single == Cardinality(DOMAIN features) = 1
      only == CHOOSE n \in DOMAIN features : TRUE
  IN IF Len(args) = 0 THEN [err |-> "IndexError", st |-> st]
     ELSE LET name == IF single THEN PyStr(only) ELSE args[1]
              rest == IF single /\ args[1].t # "str" THEN args ELSE Tail(args)
          IN IF ~(name.t = "str" /\ name.v \in DOMAIN features)
             THEN [err |-> "KeyError", st |-> st]
             ELSE LET feature == features[name.v]
                  IN IF IsGroup(feature) THEN set(T, st, feature.gid, rest)
                     ELSE LET st1 == IF DictHas(st.slots[g], name.v) THEN st
                                     ELSE [st EXCEPT !.slots[g] =
                                             DictPut(@, name.v, Slot(feature.fields))]
                              r == FeatureSet(feature, st1.slots[g][name.v], rest)
                          IN [err |-> r.err,
                              st |-> [st1 EXCEPT !.slots[g][name.v] = r.slot]]

set(T, st, g, args) ==
  LET features == T[g].features
      single == Cardinality(DOMAIN features) = 1
      only == CHOOSE n \in DOMAIN features : TRUE
  IN IF Len(args) = 0 THEN [err |-> "IndexError", st |-> st]
     ELSE LET name == IF single THEN PyStr(only) ELSE args[1]
              rest == IF single /\ ~PyEq(name, args[1]) THEN args ELSE Tail(args)
          IN IF ~(name.t = "str" /\ name.v \in DOMAIN features)
             THEN [err |-> "KeyError", st |-> st]
             ELSE LET feature == features[name.v]
                  IN IF IsGroup(feature) THEN set(T, st, feature.gid, rest)
                     ELSE LET st1 == IF DictHas(st.slots[g], name.v) THEN st
                                     ELSE [st EXCEPT !.slots[g] =
                                             DictPut(@, name.v, Slot(feature.fields))]
                              r == FeatureSet(feature, st1.slots[g][name.v], rest)
                          IN [err |-> r.err,
                              st |-> [st1 EXCEPT !.slots[g][name.v] = r.slot]]

\* Group.__getattr__(name) followed by the call of the result with args;
\* attr is the attribute's name, e.g. <<"set", "a", "b">> for set_a_b
getattr_call(T, st, g, attr, args) ==
  LET function == attr[1]
      partial_applied_args == [i \in 1..(Len(attr) - 1) |-> PyStr(<<attr[i + 1]>>)]
  IN IF function # "set" THEN [err |-> "AttributeError", st |-> st]
     ELSE IF Len(partial_applied_args) = 0 THEN set(T, st, g, args)
     ELSE set(T, st, g, partial_applied_args \o args)

\* Group.push()
RECURSIVE push(_, _, _)
RECURSIVE PushEach(_, _, _)
PushEach(T, st, gs) ==
  IF gs = {} THEN st
  ELSE LET h == CHOOSE x \in gs : TRUE
       IN PushEach(T, push(T, st, h), gs \ {h})

\* push that records the slots and keeps them for the next row
PushKeepingSlots(T, st, g) ==
  LET st1 == PushEach(T, st, ChildGroups(T, g))
  IN [slots |-> st1.slots,
      rows |-> [st1.rows EXCEPT ![g] = Append(@, st1.slots[g])]]

\* push that does not inform the nested Groups
PushFlat(T, st, g) ==
  [slots |-> [st.slots EXCEPT ![g] = EmptyDict],
   rows |-> [st.rows EXCEPT ![g] = Append(@, st.slots[g])]]

push(T, st, g) ==
  LET st1 == PushEach(T, st, ChildGroups(T, g))
  IN [slots |-> [st1.slots EXCEPT ![g] = EmptyDict],
      rows |-> [st1.rows EXCEPT ![g] = Append(@, st1.slots[g])]]

\* the keys of a dict as a sequence, in some order
RECURSIVE KeysOf(_)
KeysOf(S) ==
  IF S = {} THEN <<>>
  ELSE LET x == CHOOSE y \in S : TRUE IN <<x>> \o KeysOf(S \ {x})

\* the union of the keys of the slots stored under name in the rows
RECURSIVE RowKeys(_, _)
RowKeys(rs, name) ==
  IF Len(rs) = 0 THEN <<>>
  ELSE (IF DictHas(rs[1], name) THEN KeysOf(DOMAIN rs[1][name].data) ELSE <<>>)
       \o RowKeys(Tail(rs), name)

\* Group._get_fields(name)
get_fields(T, st, g, name) ==
  LET feature == T[g].features[name]
  IN IF feature.fields.t # "None" THEN SortedSet(feature.fields.v)
     ELSE SortedSet(RowKeys(st.rows[g], name))

\* array_from_feature reading the first row's slot for every row
ArrayFromFirstRow(T, st, g, name) ==
  LET columns == get_fields(T, st, g, name)
      rs == st.rows[g]
  IN [named |-> TRUE, columns |-> columns,
      data |-> [i \in 1..Len(rs) |->
                 [j \in 1..Len(columns) |->
                    IF DictHas(rs[1], name) /\ DictHas(rs[1][name].data, columns[j])
                    THEN DictGet(rs[1][name].data, columns[j])
                    ELSE 0]]]

\* Group._array_from_feature(name, feature)
array_from_feature(T, st, g, name) ==
  LET columns == get_fields(T, st, g, name)
      rs == st.rows[g]
  IN [named |-> TRUE, columns |-> columns,
      data |-> [i \in 1..Len(rs) |->
                 [j \in 1..Len(columns) |->
                    IF DictHas(rs[i], name) /\ DictHas(rs[i][name].data, columns[j])
                    THEN DictGet(rs[i][name].data, columns[j])
                    ELSE 0]]]

\* the transforms a Group is constructed with: "none" is Group.transform,
\* "abcd" the transform of the tests, which returns a table of the same
\* length with the columns a, b, c, d and the row 1, 2, 3, 4
transform(t, array) ==
  IF t = "abcd"
  THEN [named |-> TRUE,
        columns |-> <<PyStr(<<"a">>), PyStr(<<"b">>), PyStr(<<"c">>), PyStr(<<"d">>)>>,
        data |-> [i \in 1..Len(array.data) |-> <<1, 2, 3, 4>>]]
  ELSE array

\* sorted(self.features.items()): the names in ascending order
SortedNames(T, g) ==
  SortedSet([i \in 1..Cardinality(DOMAIN T[g].features) |->
               PyStr(KeysOf(DOMAIN T[g].features)[i])])

\* Group.array(): [err, ret, calls, st]; calls lists the calls of transform
\* made, innermost first, each [g, arg]; st is the state it leaves
RECURSIVE array(_, _, _)

\* lines 98-101: the table of one child
Part(T, st, g, name) ==
  IF IsGroup(T[g].features[name]) THEN array(T, st, T[g].features[name].gid)
  ELSE [err |-> "", ret |-> array_from_feature(T, st, g, name), calls |-> <<>>, st |-> st]

\* line 102: result.concatenate(part, prefix=name)
Merged(acc, sub, c) == [err |-> c.err, ret |-> c.self, calls |-> acc.calls \o sub.calls]

Merge(acc, name, sub) ==
  IF sub.err # "" THEN [err |-> sub.err, ret |-> acc.ret, calls |-> acc.calls \o sub.calls]
  ELSE Merged(acc, sub, concatenate(acc.ret, sub.ret, name))

\* lines 97-102: the loop over the children, stopped by an exception
RECURSIVE ArrayLoop(_, _, _, _, _)
ArrayLoop(T, st, g, names, acc) ==
  IF Len(names) = 0 \/ acc.err # "" THEN acc
  ELSE ArrayLoop(T, st, g, Tail(names), Merge(acc, names[1].v, Part(T, st, g, names[1].v)))

\* array that returns the assembled table without calling the transform
TransformSkipped(T, st, g, r) ==
  [err |-> r.err, ret |-> r.ret, calls |-> r.calls, st |-> st]

\* line 103: result = self.transform(result)
Transformed(T, st, g, r) ==
  IF r.err # "" THEN [err |-> r.err, ret |-> r.ret, calls |-> r.calls, st |-> st]
  ELSE [err |-> "", ret |-> transform(T[g].transform, r.ret),
        calls |-> Append(r.calls, [g |-> g, arg |-> r.ret]), st |-> st]

Assembled(T, st, g) ==
  ArrayLoop(T, st, g, SortedNames(T, g),
            [err |-> "", ret |-> Array(Len(st.rows[g]), <<>>), calls |-> <<>>])

\* array that hands out the rows and forgets them
ArrayConsuming(T, st, g) ==
  [Transformed(T, st, g, Assembled(T, st, g)) EXCEPT !.st = [st EXCEPT !.rows[g] = <<>>]]

array(T, st, g) == Transformed(T, st, g, Assembled(T, st, g))

(*********************** The trees and the calls made **********************)

S(c) == PyStr(<<c>>)
Leaf(g) == [kind |-> "Group", gid |-> g]
Node(features, t) == [features |-> features, transform |-> t]
Keep == [t |-> "callable", v |-> <<"keep">>]

\* The Group trees constructed.  1: the tree of test_setter_extended, b with
\* two fields; 2: one child whose fields are named, one of them like the
\* child; 3: Categorical and Hashed(replace='add'); 4: Hashed with 'max' and
\* with a callable; 5: one Hashed child, default hash, random_sign;
\* 6: a child name with an underscore; 7: transforms at both levels;
\* 8: a child a_b beside a nested Group a that has a child b.
Trees ==
  << [top |-> Node((<<"a">> :> Numerical(PyInt(1))) @@ (<<"b">> :> Numerical(PyInt(2)))
                   @@ (<<"c">> :> Leaf("c")), "none"),
      c |-> Node((<<"d">> :> Numerical(PyInt(1))), "none")],
     [top |-> Node((<<"x">> :> Numerical(PyList(<<S("x"), S("y")>>))), "none")],
     [top |-> Node((<<"c">> :> Categorical(<<S("b"), S("a"), S("b")>>))
                   @@ (<<"h">> :> Hashed("mock", 2, PyStr(<<"add">>), FALSE)), "none")],
     [top |-> Node((<<"g">> :> Hashed("mock", 2, PyStr(<<"max">>), FALSE))
                   @@ (<<"k">> :> Hashed("mock", 2, Keep, FALSE)), "none")],
     [top |-> Node((<<"h">> :> Hashed("fnv32a", 3, NoneVal, TRUE)), "none")],
     [top |-> Node((<<"a", "b">> :> Numerical(PyInt(1)))
                   @@ (<<"a">> :> Numerical(PyList(<<S("b"), S("c")>>))), "none")],
     [top |-> Node((<<"a">> :> Numerical(PyInt(1))) @@ (<<"c">> :> Leaf("c")), "abcd"),
      c |-> Node((<<"d">> :> Numerical(PyInt(1))), "abcd")],
     [top |-> Node((<<"a">> :> Leaf("n")) @@ (<<"a", "b">> :> Numerical(PyInt(1))), "none"),
      n |-> Node((<<"b">> :> Numerical(PyInt(1))), "none")] >>

Top == "top"
Tree == Trees[cfg]

\* the parts of the names of a path, joined: "a_b" for ("a", "b")
RECURSIVE Join(_)
Join(path) == IF Len(path) = 0 THEN <<>> ELSE path[1] \o Join(Tail(path))

\* A call group.<attr>(*args).  When the caller means to set one field of a
\* leaf, path holds the child names written in the call, col is the column
\* of that field in the top-level table and val the value as a float;
\* otherwise col is empty.
\* group.set(name, ..., *rest)
Direct(path, rest, col, val) ==
  [form |-> "set", attr |-> <<"set">>, args |-> [i \in 1..Len(path) |-> PyStr(path[i])] \o rest,
   path |-> path, col |-> col, val |-> val]
\* group.set_name(*rest)
Sugar(path, rest, col, val) ==
  [form |-> "attr", attr |-> <<"set">> \o Join(path), args |-> rest,
   path |-> path, col |-> col, val |-> val]
\* group.set(*args), nothing said of what it means
Raw(args) ==
  [form |-> "set", attr |-> <<"set">>, args |-> args, path |-> <<>>, col |-> <<>>, val |-> 0]

\* group.set(*args) that reaches one leaf's set with a token or a field name:
\* col is the column of the field written, val the weight given
Token(args, col, val) ==
  [form |-> "set", attr |-> <<"set">>, args |-> args, path |-> <<>>, col |-> col, val |-> val]

Calls ==
  << << Sugar(<< <<"a">> >>, <<PyInt(10)>>, <<"a", "0">>, 10),
        Direct(<< <<"a">> >>, <<PyInt(11)>>, <<"a", "0">>, 11),
        Sugar(<< <<"c">>, <<"d">> >>, <<PyInt(30)>>, <<"c", "d", "0">>, 30),
        Direct(<< <<"c">>, <<"d">> >>, <<S("3")>>, <<"c", "d", "0">>, 3),
        Direct(<< <<"c">> >>, <<PyInt(30)>>, <<"c", "d", "0">>, 30),
        Raw(<<S("z"), PyInt(1)>>) >>,
     << Token(<<S("x"), S("x"), PyInt(5)>>, <<"x", "x">>, 5),
        Raw(<<S("x"), PyInt(5)>>),
        Token(<<S("y"), PyInt(6)>>, <<"x", "y">>, 6),
        Token(<<S("x"), S("y"), PyInt(6)>>, <<"x", "y">>, 6),
        Raw(<<S("z"), PyInt(1)>>),
        Raw(<<>>) >>,
     << Token(<<S("c"), S("a")>>, <<"c", "0">>, 1),
        Raw(<<S("c"), S("x")>>),
        Token(<<S("h"), S("a"), PyInt(1)>>, <<"h", "0">>, 1),
        Token(<<S("h"), S("c"), PyInt(2)>>, <<"h", "0">>, 2) >>,
     << Token(<<S("g"), S("a"), PyInt(1)>>, <<"g", "0">>, 1),
        Token(<<S("g"), S("c"), PyInt(3)>>, <<"g", "0">>, 3),
        Token(<<S("k"), S("a"), PyInt(1)>>, <<"k", "0">>, 1),
        Token(<<S("k"), S("c"), PyInt(3)>>, <<"k", "0">>, 3) >>,
     << Token(<<S("a"), PyInt(2)>>, <<"h", "1">>, 2),
        Token(<<S("b"), PyInt(3)>>, <<"h", "1">>, 3),
        Token(<<PyStr(<<"a", "b">>), PyInt(4)>>, <<"h", "0">>, 4),
        Token(<<S("h"), S("a"), PyInt(5)>>, <<"h", "1">>, 5) >>,
     << Sugar(<< <<"a", "b">> >>, <<PyInt(10)>>, <<"a", "b", "0">>, 10),
        Direct(<< <<"a", "b">> >>, <<PyInt(10)>>, <<"a", "b", "0">>, 10),
        Direct(<< <<"a">> >>, <<S("b"), PyInt(20)>>, <<"a", "b">>, 20) >>,
     << Sugar(<< <<"a">> >>, <<PyInt(10)>>, <<"a", "0">>, 10),
        Direct(<< <<"c">>, <<"d">> >>, <<PyInt(30)>>, <<"c", "d", "0">>, 30) >>,
     << Direct(<< <<"a">>, <<"b">> >>, <<PyInt(1)>>, <<"a", "b", "0">>, 1),
        Direct(<< <<"a", "b">> >>, <<PyInt(2)>>, <<"a", "b", "0">>, 2) >> >>

NumTrees == Len(Trees)
MaxRows == 2
MaxArrayRows == 2

NoArray == [named |-> FALSE, columns |-> <<>>, data |-> <<>>]
NoCall == Raw(<<>>)

\* the caller made a set_name(...) call for a name that holds an underscore
Underscored(c) == c.form = "attr" /\ \E i \in 1..Len(c.path) : Len(c.path[i]) > 1

State == [slots |-> slots, rows |-> rows]

Init ==
  /\ cfg \in 1..NumTrees
  /\ slots = GroupInit(Trees[cfg]).slots
  /\ rows = GroupInit(Trees[cfg]).rows
  /\ last = [op |-> "init", call |-> NoCall, err |-> "", ret |-> NoArray, calls |-> <<>>]
  /\ want = [done |-> <<>>, cur |-> EmptyDict, sugar |-> FALSE]
  /\ arr = NoArray

\* a call of set or of set_<name> on the top-level Group
Set ==
  \E i \in 1..Len(Calls[cfg]) :
    LET c == Calls[cfg][i]
        r == getattr_call(Tree, State, Top, c.attr, c.args)
    IN /\ slots' = r.st.slots
       /\ rows' = r.st.rows
       /\ last' = [op |-> "set", call |-> c, err |-> r.err, ret |-> NoArray, calls |-> <<>>]
       /\ want' = [want EXCEPT
                     !.cur = IF r.err = "" /\ Len(c.col) > 0
                             THEN DictPut(@, c.col, c.val) ELSE @,
                     !.sugar = @ \/ Underscored(c)]
       /\ UNCHANGED <<cfg, arr>>

\* a call of push on the top-level Group
Push ==
  /\ Len(rows[Top]) < MaxRows
  /\ LET st == push(Tree, State, Top)
     IN slots' = st.slots /\ rows' = st.rows
  /\ last' = [op |-> "push", call |-> NoCall, err |-> "", ret |-> NoArray, calls |-> <<>>]
  /\ want' = [want EXCEPT !.done = Append(@, want.cur), !.cur = EmptyDict]
  /\ UNCHANGED <<cfg, arr>>

\* a call of array on the top-level Group
ArrayCall ==
  /\ LET r == array(Tree, State, Top)
     IN /\ slots' = r.st.slots
        /\ rows' = r.st.rows
        /\ last' = [op |-> "array", call |-> NoCall, err |-> r.err, ret |-> r.ret,
                    calls |-> r.calls]
  /\ UNCHANGED <<cfg, want, arr>>

Next == Set \/ Push \/ ArrayCall

Spec == Init /\ [][Next]_vars

(************************* A standalone Array ******************************)

\* the tables given to concatenate: an Array with the columns a, b, or a
\* plain list of rows, of n rows
Other(kind, n) ==
  IF kind = "named"
  THEN [named |-> TRUE, columns |-> <<S("a"), S("b")>>, data |-> [i \in 1..n |-> <<7, 8>>]]
  ELSE [named |-> FALSE, columns |-> <<>>, data |-> [i \in 1..n |-> <<4, 5>>]]

InitArray ==
  /\ cfg = 1
  /\ slots = GroupInit(Trees[cfg]).slots
  /\ rows = GroupInit(Trees[cfg]).rows
  /\ want = [done |-> <<>>, cur |-> EmptyDict, sugar |-> FALSE]
  /\ arr \in {Array(0, <<S("a"), S("b")>>), Array(0, <<>>)}
  /\ last = [op |-> "init", err |-> "", before |-> arr, other |-> NoArray, prefix |-> <<>>]

\* array.append(row), of UserList, with a row of two values
ArrAppend ==
  \E row \in {<<1, 2>>, <<3, 4>>} :
    /\ Len(arr.data) < MaxArrayRows
    /\ \A i \in 1..Len(arr.data) : Len(arr.data[i]) = 2
    /\ arr' = [arr EXCEPT !.data = Append(@, row)]
    /\ last' = [op |-> "append", err |-> "", before |-> arr, other |-> NoArray, prefix |-> <<>>]
    /\ UNCHANGED <<cfg, slots, rows, want>>

\* array.concatenate(other, prefix)
ArrConcatenate ==
  \E kind \in {"named", "plain"}, n \in 0..MaxArrayRows, prefix \in {<<>>, <<"o">>} :
    LET r == concatenate(arr, Other(kind, n), prefix)
    IN /\ arr' = r.self
       /\ last' = [op |-> "concatenate", err |-> r.err, before |-> arr,
                   other |-> Other(kind, n), prefix |-> prefix]
       /\ UNCHANGED <<cfg, slots, rows, want>>

NextArray == ArrAppend \/ ArrConcatenate

SpecArray == InitArray /\ [][NextArray]_vars

(******************************** Claims ***********************************)

\* the number of calls of push made on the top-level Group
Pushes == Len(want.done)

\* the names of the children of Group g that are Features
FeatureNames(T, g) == {n \in DOMAIN T[g].features : ~IsGroup(T[g].features[n])}

\* C1: after any sequence of set and push calls on the top-level Group, every
\* Group of the tree has recorded as many rows as push was called on the top
\* one, every leaf Feature gives that many rows to array(), and array() does
\* not fail with a row-length mismatch.
C1_LockStep ==
  /\ \A g \in DOMAIN Tree :
       /\ Len(rows[g]) = Pushes
       /\ \A n \in FeatureNames(Tree, g) :
            Len(array_from_feature(Tree, State, g, n).data) = Pushes
  /\ last.op = "array" => last.err # LengthError

\* two pushes were made in the tree with a nested Group, the nested child got
\* no set in the first cycle, and array() returned
C1_Witness ==
  /\ cfg = 1 /\ Pushes = 2 /\ Len(rows["c"]) = 2
  /\ rows["c"][1] = EmptyDict /\ rows["c"][2] # EmptyDict
  /\ last.op = "array" /\ last.err = ""

\* every leaf is Numerical and no Group has a transform
AllNumerical(T) ==
  \A g \in DOMAIN T :
    /\ T[g].transform = "none"
    /\ \A n \in DOMAIN T[g].features : T[g].features[n].kind \in {"Numerical", "Group"}

\* the cell of row k of a table in the column named col (parts of the name)
HasColumn(table, col) == PyIn(PyStr(col), table.columns)
Cell(table, k, col) == table.data[k][PyIndex(PyStr(col), table.columns)]

\* array() returned a table with one row per push that holds, for every
\* field the caller set in a cycle, the value set last
RowsHoldValuesSet ==
  (last.op = "array" /\ AllNumerical(Tree)) =>
     /\ last.err = ""
     /\ Len(last.ret.data) = Pushes
     /\ \A k \in 1..Pushes : \A col \in DOMAIN want.done[k] :
          HasColumn(last.ret, col) /\ Cell(last.ret, k, col) = want.done[k][col]

\* C2 as stated: the rows of array() hold the values set, whether a set was
\* written set(name, ...), set_name(...) or with a nested path.
C2_Original == RowsHoldValuesSet

\* C2, amended: the same, when no set_name(...) call was written for a child
\* whose name holds an underscore (set_a_b(v) is set("a", "b", v)) and array()
\* did not stop at two columns of one name (child names with an underscore
\* can give them).
C2_RoundTrip ==
  (~want.sugar /\ ~(last.op = "array" /\ last.err = ColumnError)) => RowsHoldValuesSet

\* the example of the claim, in its three ways of writing a set: two rows,
\* a set to 10 then 11 and c.d set to 30 then "3"
C2_Witness ==
  /\ cfg = 1 /\ last.op = "array" /\ last.err = ""
  /\ want.done = << (<<"a", "0">> :> 10) @@ (<<"c", "d", "0">> :> 30),
                    (<<"a", "0">> :> 11) @@ (<<"c", "d", "0">> :> 3) >>
  /\ last.ret.data = << <<10, 0, 0, 30>>, <<11, 0, 0, 3>> >>

\* C3 as stated: a set call that writes a field identifier outside the fixed
\* field set of the Feature does not raise at the set call (the KeyError comes
\* with the next push).  The call is set("z", 1) on the Group whose one child
\* is Numerical(fields=["x", "y"]).
C3_DeferredValidation ==
  (cfg = 2 /\ last.op = "set" /\ last.call.args = <<S("z"), PyInt(1)>>) => last.err = ""

\* C4 as stated: Categorical.set with a token that is not among the known
\* values raises no error.  The call is set("c", "x") with c = Categorical of
\* the values a, b.
C4_UnknownTokenIgnored ==
  (cfg = 3 /\ last.op = "set" /\ last.call.args = <<S("c"), S("x")>>) => last.err = ""

\* the children of the top-level Group that are Hashed with a policy given
PolicyNames == {n \in FeatureNames(Tree, Top) :
                  Tree[Top].features[n].kind = "Hashed" /\ Tree[Top].features[n].func.t # "None"}

\* the bucket of a token
BucketOf(f, token) == PyInt(HashMod(HashOf(f.hash, token), Len(f.fields.v)))

HashedProbes == {<<S("a"), PyInt(1)>>, <<S("c"), PyInt(2)>>, <<S("c"), PyInt(3)>>}

\* C5 as stated: for a Hashed feature constructed with a collision policy, a
\* set that maps to a bucket already filled in the same row leaves in the
\* bucket the policy's combination of the new weight and the value held.
C5_CollisionPolicy ==
  \A n \in PolicyNames \cap DOMAIN slots[Top] : \A args \in HashedProbes :
    LET f == Tree[Top].features[n]
        slot == slots[Top][n]
        b == BucketOf(f, args[1])
    IN DictHas(slot.data, b) =>
         DictGet(HashedSet(f, slot, args).slot.data, b)
           = CallPolicy(f.func, args[2].v, DictGet(slot.data, b))

\* the values of st2 are those of st1 (a child without values counts as a
\* child without slot)
SameValues(T, st1, st2) ==
  /\ st1.rows = st2.rows
  /\ \A g \in DOMAIN T : \A n \in DOMAIN T[g].features :
       (IF DictHas(st1.slots[g], n) THEN st1.slots[g][n].data ELSE EmptyDict)
         = (IF DictHas(st2.slots[g], n) THEN st2.slots[g][n].data ELSE EmptyDict)

\* argument lists whose first element is tried as a name
NameProbes ==
  {<<S("z"), PyInt(1)>>, <<S("y"), PyInt(6)>>, <<PyInt(7), PyInt(1)>>,
   <<S("d"), PyInt(1)>>, <<S("z")>>, <<S("b"), S("b"), PyInt(2)>>}

IsChildName(T, g, x) == x.t = "str" /\ x.v \in DOMAIN T[g].features

\* C6 as stated: set(name, ...) with a name that is no key of the Group's
\* children fails at the call and records no value, whatever the number of
\* children, one included.
C6_Original ==
  \A g \in DOMAIN Tree : \A args \in NameProbes :
    ~IsChildName(Tree, g, args[1]) =>
       LET r == set(Tree, State, g, args)
       IN r.err # "" /\ SameValues(Tree, r.st, State)

\* C6, amended: in a Group whose number of children is not one, set(name, ...)
\* with a name that is no key of the children raises KeyError at the call and
\* changes nothing.
C6_UnknownName ==
  \A g \in DOMAIN Tree : \A args \in NameProbes :
    (~IsChildName(Tree, g, args[1]) /\ Cardinality(DOMAIN Tree[g].features) # 1) =>
       LET r == set(Tree, State, g, args)
       IN r.err = "KeyError" /\ r.st = State

\* set("z", 1) was called on the Group with three children while values were
\* pending, and raised KeyError
C6_Witness ==
  /\ cfg = 1 /\ last.op = "set" /\ last.call.args = <<S("z"), PyInt(1)>>
  /\ last.err = "KeyError" /\ slots[Top] # EmptyDict /\ slots["c"] # EmptyDict

\* the Groups with exactly one child
SingleGroups(T) == {g \in DOMAIN T : Cardinality(DOMAIN T[g].features) = 1}
OnlyName(T, g) == PyStr(CHOOSE n \in DOMAIN T[g].features : TRUE)

\* argument lists given to set with the child's name omitted
ArgProbes ==
  {<<S("y"), PyInt(6)>>, <<PyInt(30)>>, <<S("a"), PyInt(2)>>, <<S("z"), PyInt(1)>>,
   <<PyInt(0), PyInt(4)>>, <<S("x"), PyInt(5)>>, <<S("d"), PyInt(30)>>,
   <<S("h"), PyInt(5)>>, <<S("x"), S("y"), PyInt(6)>>, <<>>}

\* C7 as stated: in a Group with exactly one child, set(args...) does what
\* set(name, args...) does, for every argument list.
C7_Original ==
  \A g \in SingleGroups(Tree) : \A args \in ArgProbes :
    set(Tree, State, g, args) = set(Tree, State, g, <<OnlyName(Tree, g)>> \o args)

\* C7, amended: the same for every argument list that is not empty and whose
\* first element is not equal to the child's name.
C7_NameOmitted ==
  \A g \in SingleGroups(Tree) : \A args \in ArgProbes :
    (Len(args) > 0 /\ ~PyEq(args[1], OnlyName(Tree, g))) =>
      set(Tree, State, g, args) = set(Tree, State, g, <<OnlyName(Tree, g)>> \o args)

\* set("y", 6) was called on the Group whose one child is named x, and
\* recorded 6.0 in the field y of x
C7_Witness ==
  /\ cfg = 2 /\ last.op = "set" /\ last.call.args = <<S("y"), PyInt(6)>> /\ last.err = ""
  /\ DictHas(slots[Top], <<"x">>) /\ DictHas(slots[Top][<<"x">>].data, S("y"))
  /\ DictGet(slots[Top][<<"x">>].data, S("y")) = 6

\* the names concatenate gives the columns of other under a prefix
NewNames(other, prefix) ==
  LET names == IF other.named THEN Columns(other).cols ELSE numbered_columns(other.data)
  IN IF Len(prefix) > 0 THEN [i \in 1..Len(names) |-> PyStr(Format(prefix, names[i]))]
     ELSE names

Clash(self, other, prefix) ==
  \E i \in 1..Len(NewNames(other, prefix)) : PyIn(NewNames(other, prefix)[i], Columns(self).cols)

IsValueError(e) == e \in {LengthError, ColumnError}

\* C8: concatenate raises ValueError when the lengths differ or when an
\* incoming column name (after prefixing) exists in the receiver, and then
\* leaves the receiver's columns and rows as they were; a later concatenate
\* of the same table under a distinguishing prefix succeeds, its width the
\* sum of the widths, each row the old values followed by the new ones.
C8_ConcatenateAllOrNothing ==
  last.op = "concatenate" =>
    LET before == last.before
        other == last.other
        fails == Len(before.data) # Len(other.data) \/ Clash(before, other, last.prefix)
    IN /\ fails => /\ IsValueError(last.err)
                   /\ Columns(arr).cols = Columns(before).cols
                   /\ arr.data = before.data
       /\ ~fails => last.err = ""
       /\ (fails /\ Len(before.data) = Len(other.data)) =>
            \A p \in {<<"o">>, <<"p">>} :
              ~Clash(arr, other, p) =>
                 LET r == concatenate(arr, other, p)
                 IN /\ r.err = ""
                    /\ Len(Columns(r.self).cols)
                         = Len(Columns(before).cols) + Len(NewNames(other, p))
                    /\ \A i \in 1..Len(before.data) :
                         r.self.data[i] = before.data[i] \o other.data[i]

\* the case of test_array_concatenate: a table with rows and the columns
\* a, b, 0, 1 refused the table with the columns a, b given without prefix
C8_Witness ==
  /\ last.op = "concatenate" /\ last.err = ColumnError
  /\ last.other = Other("named", 2) /\ last.prefix = <<>>
  /\ Len(arr.data) = 2 /\ Len(Columns(arr).cols) = 4

\* C9: array() is a pure read: it leaves the rows and the pending slots of
\* every Group of the tree as they were, and a second array() call with no
\* set or push in between returns the same table.
C9_ArrayPureRead ==
  [][last'.op = "array" =>
       /\ slots' = slots /\ rows' = rows
       /\ last.op = "array" => (last'.ret = last.ret /\ last'.err = last.err)]_vars

\* array() returned a table with rows while values were pending at both levels
C9_Witness ==
  /\ cfg = 1 /\ last.op = "array" /\ last.err = "" /\ Len(last.ret.data) = 2
  /\ slots[Top] # EmptyDict /\ slots["c"] # EmptyDict

\* the calls of the transform of Group g made by the last array() call
CallsOf(g) == SelectSeq(last.calls, LAMBDA c : c.g = g)

ABCD == <<S("a"), S("b"), S("c"), S("d")>>

\* the value the caller set for a column in row k, 0 when none
Wanted(k, col) == IF DictHas(want.done[k], col) THEN want.done[k][col] ELSE 0

\* C10: every array() call on a Group invokes its transform exactly once, on
\* the table assembled from all children under their name prefixes, one row
\* per push, and returns the transform's result; without a transform it
\* returns the assembled table.
C10_TransformOnce ==
  (last.op = "array" /\ last.err = "") =>
    /\ \A g \in DOMAIN Tree : Len(CallsOf(g)) = 1
    /\ LET arg == CallsOf(Top)[1].arg
       IN /\ Len(arg.data) = Pushes
          /\ \A i \in 1..Len(arg.columns) :
               \E n \in DOMAIN Tree[Top].features :
                 SubSeq(arg.columns[i].v, 1, Len(n)) = n
          /\ Tree[Top].transform = "none" => last.ret = arg
          /\ Tree[Top].transform = "abcd" =>
               /\ last.ret.columns = ABCD
               /\ last.ret.data = [k \in 1..Pushes |-> <<1, 2, 3, 4>>]
          /\ cfg = 7 =>
               /\ arg.columns = <<PyStr(<<"a", "0">>), PyStr(<<"c", "a">>), PyStr(<<"c", "b">>),
                                  PyStr(<<"c", "c">>), PyStr(<<"c", "d">>)>>
               /\ arg.data = [k \in 1..Pushes |-> <<Wanted(k, <<"a", "0">>), 1, 2, 3, 4>>]
          /\ cfg = 1 =>
               /\ arg.columns = <<PyStr(<<"a", "0">>), PyStr(<<"b", "0">>), PyStr(<<"b", "1">>),
                                  PyStr(<<"c", "d", "0">>)>>
               /\ arg.data = [k \in 1..Pushes |->
                                <<Wanted(k, <<"a", "0">>), 0, 0, Wanted(k, <<"c", "d", "0">>)>>]

\* array() of the Group with a transform returned the four columns of the
\* transform for two rows, one of them with a value set
C10_Witness ==
  /\ cfg = 7 /\ last.op = "array" /\ last.err = ""
  /\ Pushes = 2 /\ DictHas(want.done[1], <<"a", "0">>)
  /\ last.ret.columns = ABCD /\ Len(last.ret.data) = 2
\* every Feature of the tree has fixed fields and no Group has a transform
FixedFields(T) ==
  \A g \in DOMAIN T :
    /\ T[g].transform = "none"
    /\ \A n \in FeatureNames(T, g) : T[g].features[n].fields.t # "None"

\* the columns of the table array() returned, as sequences of name parts
ColumnsOf(table) == {table.columns[i].v : i \in 1..Len(table.columns)}

\* the columns of row k that are not 0.0 in the table
NonZero(table, k) == {col \in ColumnsOf(table) : Cell(table, k, col) # 0}

\* C11: for Features with fixed fields, a field that received no set between
\* push k-1 and push k is 0.0 in row k of array(), also when it was written
\* in an earlier cycle; each push leaves every Group of the tree without a
\* pending value, and every successful set is one the caller's record holds.
\* (A set_name(...) call for a name with an underscore is a set of another
\* field than the one written down, so behaviours with one are left out.)
C11_UnsetIsZero ==
  (FixedFields(Tree) /\ ~want.sugar) =>
    /\ last.op = "push" => \A g \in DOMAIN Tree : slots[g] = EmptyDict
    /\ (last.op = "set" /\ last.err = "") => DictHas(want.cur, last.call.col)
    /\ (last.op = "array" /\ last.err = "") =>
         /\ Len(last.ret.data) = Pushes
         /\ \A k \in 1..Pushes : NonZero(last.ret, k) \subseteq DOMAIN want.done[k]

\* Categorical and Hashed: both were set in the first cycle, nothing in the
\* second, and array() gave a first row with values and a second of zeros
C11_Witness ==
  /\ cfg = 3 /\ last.op = "array" /\ last.err = "" /\ Pushes = 2
  /\ DOMAIN want.done[1] = {<<"c", "0">>, <<"h", "0">>} /\ want.done[2] = EmptyDict
  /\ NonZero(last.ret, 1) = {<<"c", "0">>, <<"h", "0">>}
  /\ NonZero(last.ret, 2) = {}
  /\ slots[Top] # EmptyDict
\* the child names of every Group of the tree hold no underscore
PlainNames(T) == \A g \in DOMAIN T : \A n \in DOMAIN T[g].features : Len(n) = 1

\* the table the last array() call assembled for the top-level Group (what
\* its transform was given)
AssembledTable == CallsOf(Top)[1].arg

\* the names of the columns of a table are pairwise distinct
DistinctColumns(table) ==
  \A i, j \in 1..Len(table.columns) : table.columns[i] = table.columns[j] => i = j

\* array() did not fail with a column-name collision and the column names of
\* the table it assembled are pairwise distinct
NoClash ==
  last.op = "array" =>
    /\ last.err # ColumnError
    /\ last.err = "" => DistinctColumns(AssembledTable)

\* C12 as stated: in every tree (the children of a Group are the keys of a
\* dict, so their names are pairwise distinct) array() never fails with a
\* column-name collision and the assembled column names are distinct.
C12_Original == NoClash

\* C12, amended: the same for the trees in which no child name holds an
\* underscore; there every column of the assembled table is the child's name,
\* an underscore and the column of the child's table (for a nested Group
\* without a transform, the name of its child and so on).
C12_PlainNamesNoClash ==
  PlainNames(Tree) =>
    /\ NoClash
    /\ (last.op = "array" /\ last.err = "") =>
         \A i \in 1..Len(AssembledTable.columns) :
           LET col == AssembledTable.columns[i].v
           IN /\ Len(col) >= 2 /\ <<col[1]>> \in DOMAIN Tree[Top].features
              /\ LET child == Tree[Top].features[<<col[1]>>]
                 IN (IsGroup(child) /\ Tree[child.gid].transform = "none") =>
                      /\ Len(col) >= 3
                      /\ <<col[2]>> \in DOMAIN Tree[child.gid].features

\* array() of the tree with a nested Group gave, after two pushes, the four
\* columns a_0, b_0, b_1 and c_d_0
C12_Witness ==
  /\ cfg = 1 /\ last.op = "array" /\ last.err = "" /\ Pushes = 2
  /\ ColumnsOf(AssembledTable) = {<<"a", "0">>, <<"b", "0">>, <<"b", "1">>, <<"c", "d", "0">>}
  /\ Len(AssembledTable.columns) = 4
====
